---- MODULE Spec2Model ----
(***************************************************************************)
(* Verification model of two algorithms of OpenAeroStruct:                 *)
(*   - the Newton trim loop of examples/crm/trim_crm.py                    *)
(*   - WingboxGeometry.compute of structures/wingbox_geometry.py           *)
(* The trim loop is modelled over exact rationals <<num, den>>; the        *)
(* geometry is modelled in binary fixed point (see further down).          *)
(***************************************************************************)
EXTENDS Integers, Sequences, FiniteSets, TLC

VARIABLES
    \* ---- trim_crm.py ----
    scn,        \* the scenario: analysis function, initial guess, targets
    pc_t,       \* position in the script
    alpha,      \* prob['alpha']
    twist_cp,   \* prob['Tail_H.twist_cp']
    coeffs,     \* prob[point_name+'.CL'][0], prob[point_name+'.CM'][1] of the last run_model
    error,      \* error[0], error[1]
    Jac,        \* Jac[0,:], Jac[1,:]
    delta,      \* delta[0], delta[1]
    iter,       \* iter
    outcome,    \* how the script ended: "running", "completed", or the uncaught exception
    evalCtrl,   \* history: the controls at which the loop last evaluated the error
    itRuns,     \* history: run_model calls of the current loop iteration
    itTotals,   \* history: compute_totals calls of the current loop iteration
    runs,       \* history: run_model calls since the start of the script
    context,    \* what the exception the script ended with carries beyond type and message
    \* ---- wingbox_geometry.py, WingboxGeometry.compute ----
    mesh,               \* inputs['mesh']: mesh[i][j] = <<x, y, z>>, i chordwise, j spanwise
    surface,            \* self.surface: the airfoil data arrays
    pc_g,               \* position in compute
    ielem,              \* loop index (0-based, as in the source)
    streamwise_chords,  \* local array
    fem_chords,         \* local array
    fem_twists,         \* local array
    w,                  \* shear-centre chordwise fraction
    nodes,              \* local array of elastic-axis points
    mesh_vectors,       \* local array of chord vectors
    loc,                \* dot_prod_0/1, theta_0/1 of the last twist iteration
    outputs,            \* the component's three outputs
    raised,             \* the exception compute ended with, or "none"
    written             \* history: the outputs compute has assigned

tvars == <<scn, pc_t, alpha, twist_cp, coeffs, error, Jac, delta, iter, outcome,
           evalCtrl, itRuns, itTotals, runs, context>>

gvars == <<mesh, surface, pc_g, ielem, streamwise_chords, fem_chords, fem_twists, w,
           nodes, mesh_vectors, loc, outputs, raised, written>>

vars == <<tvars, gvars>>

\* The two programs are independent: each specification runs one of them and
\* leaves the other's variables at these values.
TrimIdle ==
    /\ scn = <<>> /\ pc_t = "idle" /\ alpha = <<0, 1>> /\ twist_cp = <<0, 1>>
    /\ coeffs = <<>> /\ error = <<>> /\ Jac = <<>> /\ delta = <<>> /\ iter = 0
    /\ outcome = "idle" /\ evalCtrl = <<>> /\ itRuns = 0 /\ itTotals = 0
    /\ runs = 0 /\ context = <<>>

GeomIdle ==
    /\ mesh = <<>> /\ surface = <<>> /\ pc_g = "idle" /\ ielem = 0
    /\ streamwise_chords = <<>> /\ fem_chords = <<>> /\ fem_twists = <<>>
    /\ w = <<>> /\ nodes = <<>> /\ mesh_vectors = <<>> /\ loc = <<>>
    /\ outputs = <<>> /\ raised = "none" /\ written = {}

-----------------------------------------------------------------------------
(* Exact rational arithmetic: a rational is <<n, d>> with d > 0, gcd(n,d)=1 *)

Abs(n) == IF n < 0 THEN -n ELSE n

RECURSIVE GCD(_, _)
GCD(a, b) == IF b = 0 THEN a ELSE GCD(b, a % b)

\* Op(a, b) with both arguments evaluated once, before Op is applied
\* (call by value, as in the Python source)
ByValue(a, b, Op(_, _)) == CHOOSE r \in {Op(x, y) : x \in {a}, y \in {b}} : TRUE

RatOf(n, d) ==
    LET g == GCD(Abs(n), Abs(d))
        s == IF d < 0 THEN -1 ELSE 1
    IN  <<(s * n) \div g, (s * d) \div g>>
Rat(n, d) == ByValue(n, d, RatOf)

RInt(n) == <<n, 1>>
RZero == RInt(0)
RAddOf(a, b) ==
    \* over the least common denominator, so that the products stay small
    LET g == GCD(a[2], b[2])
    IN  Rat(a[1] * (b[2] \div g) + b[1] * (a[2] \div g), (a[2] \div g) * b[2])
RAdd(a, b) == ByValue(a, b, RAddOf)
RNeg(a) == <<-a[1], a[2]>>
RSub(a, b) == ByValue(a, b, LAMBDA x, y : RAdd(x, RNeg(y)))
RMulOf(a, b) ==
    \* cross-reduce first so that the products stay small
    LET p == Rat(a[1], b[2])
        q == Rat(b[1], a[2])
    IN  ByValue(p, q, LAMBDA x, y : Rat(x[1] * y[1], x[2] * y[2]))
RMul(a, b) == ByValue(a, b, RMulOf)
RDivide(a, b) == ByValue(a, b, LAMBDA x, y : RMul(x, Rat(y[2], y[1])))

\* a < b for non-negative rationals, by continued-fraction comparison
\* (no cross multiplication, so no overflow)
RECURSIVE RLessNN(_, _)
RLessOf(a, b) ==
    LET qa == a[1] \div a[2]
        qb == b[1] \div b[2]
        ra == a[1] - qa * a[2]
        rb == b[1] - qb * b[2]
    IN  IF qa # qb THEN qa < qb
        ELSE IF rb = 0 THEN FALSE
        ELSE IF ra = 0 THEN TRUE
        ELSE RLessNN(<<b[2], rb>>, <<a[2], ra>>)
RLessNN(a, b) == ByValue(a, b, RLessOf)

\* |a - b| <= e
RNear(a, b, e) ==
    LET df == RSub(a, b)
        ad == <<Abs(df[1]), df[2]>>
    IN  ~RLessNN(e, ad)

-----------------------------------------------------------------------------
(* trim_crm.py: constants of the script *)

tol == <<1, 1000>>
CL_target == <<1, 2>>
CM_target == RZero
alpha0 == RInt(5)
twist0 == RZero
\* mutant: a seed whose norm does not exceed tol
ErrorSeedSmall == <<(<<1, 2000>>), (<<1, 2000>>)>>
ErrorSeed == <<(<<1, 1000>>), (<<1, 1000>>)>>
JacZero == << <<RZero, RZero>>, <<RZero, RZero>> >>

\* np.linalg.norm(error) > tol, decided on the squares
NormSq(e) == RAdd(RMul(e[1], e[1]), RMul(e[2], e[2]))
NormGtTol(e) == RLessNN(RMul(tol, tol), NormSq(e))

-----------------------------------------------------------------------------
(* The external analysis (AeroPoint behind prob.run_model and               *)
(* prob.compute_totals) is a black box to the loop.  It is drawn from a     *)
(* small family: linear functions coefficients = A*controls + b, and two    *)
(* nonlinear ones.                                                          *)

R0 == RZero
R1 == RInt(1)

\* the stub of the end-to-end scenario: [CL, CM] = [0.08a + 0.02t, -0.01a + 0.03t]
StubFn == [kind |-> "linear",
           A |-> << <<(<<2, 25>>), (<<1, 50>>)>>, <<(<<-1, 100>>), (<<3, 100>>)>> >>,
           b |-> <<R0, R0>>]
IdentFn == [kind |-> "linear", A |-> << <<R1, R0>>, <<R0, R1>> >>, b |-> <<R0, R0>>]
ShearFn == [kind |-> "linear", A |-> << <<R1, R1>>, <<R0, RInt(2)>> >>,
            b |-> <<(<<1, 10>>), R0>>]
SingularFn == [kind |-> "linear", A |-> << <<R1, RInt(2)>>, <<RInt(2), RInt(4)>> >>,
               b |-> <<R0, R0>>]
\* CL = alpha^3 - 2 alpha + 2, CM = twist: Newton cycles 0 -> 1 -> 0 on it
CubicFn == [kind |-> "cubic", A |-> JacZero, b |-> <<R0, R0>>]
\* CL = alpha^2, CM = twist: Newton halves alpha each step
SquareFn == [kind |-> "square", A |-> JacZero, b |-> <<R0, R0>>]

\* the stub with a limited domain: run_model raises for alpha above StallAlpha
StallFn == [kind |-> "stall", A |-> StubFn.A, b |-> <<R0, R0>>]
StallAlpha == <<11, 2>>
\* the identity without derivatives: compute_totals raises
NoSensFn == [kind |-> "nosens", A |-> IdentFn.A, b |-> <<R0, R0>>]
\* the kinds evaluated as A*controls + b
LinearKinds == {"linear", "stall", "nosens"}

Targets == {<<CL_target, CM_target>>, <<R0, R0>>, <<R1, (<<1, 2>>)>>}
Guesses == {<<alpha0, twist0>>, <<R0, R0>>, <<R1, RInt(-1)>>}
NearGuesses == {<<(<<1, 2000>>), R0>>, <<R0, (<<-1, 4000>>)>>}

Scenarios ==
    [fn : {StubFn, IdentFn, ShearFn, SingularFn}, guess : Guesses, target : Targets]
    \cup [fn : {IdentFn}, guess : NearGuesses, target : Targets]
    \cup [fn : {CubicFn}, guess : {<<R0, R0>>}, target : {<<R0, R0>>}]
    \cup [fn : {SquareFn}, guess : {<<R1, R0>>}, target : {<<R0, R0>>}]
    \cup [fn : {StallFn}, guess : {<<alpha0, twist0>>}, target : Targets]
    \cup [fn : {NoSensFn}, guess : Guesses, target : {<<CL_target, CM_target>>}]

\* prob.run_model() raises instead of returning
RunFails(fn, a, t) == fn.kind = "stall" /\ RLessNN(StallAlpha, a)
\* prob.compute_totals() raises instead of returning
TotalsFail(fn, a, t) == fn.kind = "nosens"

\* prob.run_model(): the coefficients <<CL, CM[1]>> at the controls (a, t)
Evaluate(fn, a, t) ==
    IF fn.kind \in LinearKinds
    THEN <<RAdd(RAdd(RMul(fn.A[1][1], a), RMul(fn.A[1][2], t)), fn.b[1]),
           RAdd(RAdd(RMul(fn.A[2][1], a), RMul(fn.A[2][2], t)), fn.b[2])>>
    ELSE IF fn.kind = "cubic"
    THEN <<RAdd(RSub(RMul(a, RMul(a, a)), RMul(RInt(2), a)), RInt(2)), t>>
    ELSE <<RMul(a, a), t>>

\* prob.compute_totals(of=[CL, CM], wrt=[twist_cp, alpha]): keyed by (of, wrt)
ComputeTotals(fn, a, t) ==
    IF fn.kind \in LinearKinds
    THEN [CL_alpha |-> fn.A[1][1], CL_twist |-> fn.A[1][2],
          CM_alpha |-> fn.A[2][1], CM_twist |-> fn.A[2][2]]
    ELSE IF fn.kind = "cubic"
    THEN [CL_alpha |-> RSub(RMul(RInt(3), RMul(a, a)), RInt(2)), CL_twist |-> R0,
          CM_alpha |-> R0, CM_twist |-> R1]
    ELSE [CL_alpha |-> RMul(RInt(2), a), CL_twist |-> R0,
          CM_alpha |-> R0, CM_twist |-> R1]

\* mutant: rows and columns of the Jacobian exchanged
JacFromTransposed(fsens) ==
    << <<fsens.CL_alpha, fsens.CM_alpha>>, <<fsens.CL_twist, fsens.CM_twist>> >>

\* Jac[0,0], Jac[0,1], Jac[1,0], Jac[1,1] filled from fsens
JacFrom(fsens) ==
    << <<fsens.CL_alpha, fsens.CL_twist>>, <<fsens.CM_alpha, fsens.CM_twist>> >>

\* error[0] = CL_target - CL, error[1] = CM_target - CM[1]
ErrorOf(target, c) == <<RSub(target[1], c[1]), RSub(target[2], c[2])>>

Det(J) == RSub(RMul(J[1][1], J[2][2]), RMul(J[1][2], J[2][1]))

\* np.linalg.solve(Jac, error) for a nonsingular Jac (Cramer's rule)
LinSolve(J, e) ==
    <<RDivide(RSub(RMul(J[2][2], e[1]), RMul(J[1][2], e[2])), Det(J)),
      RDivide(RSub(RMul(J[1][1], e[2]), RMul(J[2][1], e[1])), Det(J))>>

\* mutant: the two components of delta applied to the wrong variables
NewtonStepSwapped(a, t, dl) == <<RAdd(a, dl[2]), RAdd(t, dl[1])>>

\* mutant: the step is subtracted
NewtonStepNegated(a, t, dl) == <<RSub(a, dl[1]), RSub(t, dl[2])>>

\* prob['alpha'] += delta[0]; prob['Tail_H.twist_cp'] += delta[1]
NewtonStep(a, t, dl) == <<RAdd(a, dl[1]), RAdd(t, dl[2])>>

\* the iteration counter is saturated at MaxIter to keep the state space finite
MaxIter == 8
BumpIter(i) == IF i < MaxIter THEN i + 1 ELSE i

-----------------------------------------------------------------------------
(* trim_crm.py, lines 117-159 *)

TrimInit ==
    /\ scn \in Scenarios
    /\ pc_t = "while"
    /\ alpha = scn.guess[1]
    /\ twist_cp = scn.guess[2]
    /\ coeffs = <<R0, R0>>
    /\ error = ErrorSeed
    /\ Jac = JacZero
    /\ delta = <<R0, R0>>
    /\ iter = 0
    /\ outcome = "running"
    /\ evalCtrl = <<scn.guess[1], scn.guess[2]>>
    /\ itRuns = 0
    /\ itTotals = 0
    /\ runs = 0
    /\ context = <<>>
    /\ GeomIdle

\* line 127: while np.linalg.norm(error) > tol
WhileTest ==
    /\ pc_t = "while"
    /\ pc_t' = IF NormGtTol(error) THEN "run_model" ELSE "final"
    /\ itRuns' = 0
    /\ itTotals' = 0
    /\ UNCHANGED <<scn, runs, context, alpha, twist_cp, coeffs, error, Jac, delta, iter, outcome, evalCtrl>>
    /\ UNCHANGED gvars

\* the script has no try/except: an exception of run_model, compute_totals
\* or np.linalg.solve ends it as it is, with no data of the loop attached
UncaughtContext == <<>>

\* the run_model calls are counted up to MaxIter + 1
BumpRuns(n) == IF n <= MaxIter THEN n + 1 ELSE n

\* lines 129-132: evaluate the current iterate
RunModel ==
    /\ pc_t = "run_model"
    /\ runs' = BumpRuns(runs)
    /\ itRuns' = itRuns + 1
    /\ IF RunFails(scn.fn, alpha, twist_cp)
       THEN /\ pc_t' = "raised"
            /\ outcome' = "AnalysisError"
            /\ context' = UncaughtContext
            /\ UNCHANGED <<coeffs, error, evalCtrl>>
       ELSE /\ coeffs' = Evaluate(scn.fn, alpha, twist_cp)
            /\ error' = ErrorOf(scn.target, coeffs')
            /\ evalCtrl' = <<alpha, twist_cp>>
            /\ pc_t' = "compute_totals"
            /\ UNCHANGED <<outcome, context>>
    /\ UNCHANGED <<scn, alpha, twist_cp, Jac, delta, iter, itTotals>>
    /\ UNCHANGED gvars

\* lines 135-140: the Jacobian
Totals ==
    /\ pc_t = "compute_totals"
    /\ itTotals' = itTotals + 1
    /\ IF TotalsFail(scn.fn, alpha, twist_cp)
       THEN /\ pc_t' = "raised"
            /\ outcome' = "AnalysisError"
            /\ context' = UncaughtContext
            /\ UNCHANGED Jac
       ELSE /\ Jac' = JacFrom(ComputeTotals(scn.fn, alpha, twist_cp))
            /\ pc_t' = "solve"
            /\ UNCHANGED <<outcome, context>>
    /\ UNCHANGED <<scn, runs, alpha, twist_cp, coeffs, error, delta, iter, evalCtrl, itRuns>>
    /\ UNCHANGED gvars

\* line 143: np.linalg.solve raises LinAlgError on a singular matrix; nothing
\* catches it, so the script ends there
Solve ==
    /\ pc_t = "solve"
    /\ IF Det(Jac) = R0
       THEN /\ pc_t' = "raised"
            /\ outcome' = "LinAlgError"
            /\ context' = UncaughtContext
            /\ UNCHANGED delta
       ELSE /\ pc_t' = "update"
            /\ delta' = LinSolve(Jac, error)
            /\ UNCHANGED <<outcome, context>>
    /\ UNCHANGED <<scn, runs, alpha, twist_cp, coeffs, error, Jac, iter, evalCtrl, itRuns, itTotals>>
    /\ UNCHANGED gvars

\* lines 146-149: the Newton update and iter += 1
Update ==
    /\ pc_t = "update"
    /\ alpha' = NewtonStep(alpha, twist_cp, delta)[1]
    /\ twist_cp' = NewtonStep(alpha, twist_cp, delta)[2]
    /\ iter' = BumpIter(iter)
    /\ pc_t' = "while"
    /\ UNCHANGED <<scn, runs, context, coeffs, error, Jac, delta, outcome, evalCtrl, itRuns, itTotals>>
    /\ UNCHANGED gvars

\* lines 152-159: the final analysis and the printed solution
FinalRun ==
    /\ pc_t = "final"
    /\ runs' = BumpRuns(runs)
    /\ IF RunFails(scn.fn, alpha, twist_cp)
       THEN /\ pc_t' = "raised"
            /\ outcome' = "AnalysisError"
            /\ context' = UncaughtContext
            /\ UNCHANGED coeffs
       ELSE /\ coeffs' = Evaluate(scn.fn, alpha, twist_cp)
            /\ pc_t' = "done"
            /\ outcome' = "completed"
            /\ UNCHANGED context
    /\ UNCHANGED <<scn, alpha, twist_cp, error, Jac, delta, iter, evalCtrl, itRuns, itTotals>>
    /\ UNCHANGED gvars

TrimNext == WhileTest \/ RunModel \/ Totals \/ Solve \/ Update \/ FinalRun

TrimSpec == TrimInit /\ [][TrimNext]_vars

\* the script is one sequential process: it always takes its next step
TrimFairSpec == TrimSpec /\ WF_vars(TrimNext)

-----------------------------------------------------------------------------
(* wingbox_geometry.py computes in numpy float64.  The model keeps the      *)
(* shape of that arithmetic at a smaller precision: a finite number is an   *)
(* integer count of 1/Scale (binary fixed point, FracBits fractional bits,  *)
(* every operation rounded to nearest), and division by zero yields NaN or  *)
(* Inf as numpy does (a warning, no exception).                             *)

FracBits == 11
Scale == 2 ^ FracBits

Num(n) == [k |-> "num", v |-> n]
NaN == [k |-> "nan", v |-> 0]
Inf(sgn) == [k |-> "inf", v |-> sgn]
FZero == Num(0)
FOne == Num(Scale)
FHalf == Num(Scale \div 2)
IsNaN(a) == a.k = "nan"
IsFinite(a) == a.k = "num"
Sign(n) == IF n > 0 THEN 1 ELSE IF n < 0 THEN -1 ELSE 0

\* n / d rounded to the nearest integer (d > 0)
RoundDiv(n, d) == (2 * n + d) \div (2 * d)

FNeg(a) == IF a.k = "nan" THEN NaN ELSE [k |-> a.k, v |-> -a.v]

FAdd(a, b) ==
    IF IsNaN(a) \/ IsNaN(b) THEN NaN
    ELSE IF a.k = "inf" /\ b.k = "inf" THEN (IF a.v = b.v THEN a ELSE NaN)
    ELSE IF a.k = "inf" THEN a
    ELSE IF b.k = "inf" THEN b
    ELSE Num(a.v + b.v)

FSub(a, b) == FAdd(a, FNeg(b))

FMul(a, b) ==
    IF IsNaN(a) \/ IsNaN(b) THEN NaN
    ELSE IF a.k = "inf" \/ b.k = "inf"
    THEN (IF a.v = 0 \/ b.v = 0 THEN NaN ELSE Inf(Sign(a.v) * Sign(b.v)))
    ELSE Num(RoundDiv(a.v * b.v, Scale))

FDiv(a, b) ==
    IF IsNaN(a) \/ IsNaN(b) THEN NaN
    ELSE IF a.k = "inf" THEN (IF b.k = "inf" THEN NaN
                              ELSE Inf(a.v * (IF b.v < 0 THEN -1 ELSE 1)))
    ELSE IF b.k = "inf" THEN FZero
    ELSE IF b.v = 0 THEN (IF a.v = 0 THEN NaN ELSE Inf(Sign(a.v)))
    ELSE IF b.v > 0 THEN Num(RoundDiv(a.v * Scale, b.v))
    ELSE Num(RoundDiv(-(a.v * Scale), -b.v))

\* a > b: False whenever a NaN is involved
FGt(a, b) ==
    IF IsNaN(a) \/ IsNaN(b) THEN FALSE
    ELSE IF a.k = "inf" THEN a.v = 1 /\ ~(b.k = "inf" /\ b.v = 1)
    ELSE IF b.k = "inf" THEN b.v = -1
    ELSE a.v > b.v

\* the integer square root: the largest r in lo..hi with r * r <= n
RECURSIVE ISqrtIn(_, _, _)
ISqrtIn(n, lo, hi) ==
    IF lo = hi THEN lo
    ELSE LET mid == (lo + hi + 1) \div 2
         IN  IF mid * mid <= n THEN ISqrtIn(n, mid, hi) ELSE ISqrtIn(n, lo, mid - 1)

\* sqrt(n) rounded to the nearest integer
RoundSqrt(n) ==
    LET r == ISqrtIn(n, 0, 46340)
    IN  IF n - r * r > r THEN r + 1 ELSE r

\* np.sqrt
FSqrt(a) ==
    IF IsNaN(a) THEN NaN
    ELSE IF a.k = "inf" THEN (IF a.v = 1 THEN a ELSE NaN)
    ELSE IF a.v < 0 THEN NaN
    ELSE Num(RoundSqrt(a.v * Scale))

\* pi/2 in units of 1/Scale
HalfPi == RoundDiv(355 * Scale, 226)

\* cos(t) for 0 <= t <= pi/2, by its Taylor polynomial of degree 8 in Horner form:
\* 1 - t^2/2 (1 - t^2/12 (1 - t^2/30 (1 - t^2/56)))
CosFP(t) ==
    LET t2 == RoundDiv(t * t, Scale)
        a4 == Scale - RoundDiv(t2, 56)
        a3 == Scale - RoundDiv(t2 * a4, 30 * Scale)
        a2 == Scale - RoundDiv(t2 * a3, 12 * Scale)
    IN  Scale - RoundDiv(t2 * a2, 2 * Scale)

\* the smallest t in lo+1..hi with cos(t) <= c, given cos(hi) <= c
RECURSIVE ArcCosIn(_, _, _)
ArcCosIn(c, lo, hi) ==
    IF hi - lo <= 1 THEN hi
    ELSE LET mid == (lo + hi) \div 2
         IN  IF CosFP(mid) <= c THEN ArcCosIn(c, lo, mid) ELSE ArcCosIn(c, mid, hi)

\* np.arccos: NaN outside [-1, 1]
ArcCos(a) ==
    IF ~IsFinite(a) THEN NaN
    ELSE IF a.v > Scale \/ a.v < -Scale THEN NaN
    ELSE IF a.v >= 0 THEN Num(IF a.v = 0 THEN HalfPi ELSE ArcCosIn(a.v, -1, HalfPi))
    ELSE Num(2 * HalfPi - (IF a.v = -Scale THEN 0 ELSE ArcCosIn(-a.v, -1, HalfPi)))

\* vectors are triples of numbers
VSub(p, q) == <<FSub(p[1], q[1]), FSub(p[2], q[2]), FSub(p[3], q[3])>>
VScale(c, p) == <<FMul(c, p[1]), FMul(c, p[2]), FMul(c, p[3])>>
VAdd(p, q) == <<FAdd(p[1], q[1]), FAdd(p[2], q[2]), FAdd(p[3], q[3])>>
\* a.dot(b)
Dot(p, q) == FAdd(FAdd(FMul(p[1], q[1]), FMul(p[2], q[2])), FMul(p[3], q[3]))
\* np.sum(vec**2)
SumSq(p) == Dot(p, p)
\* openaerostruct.structures.utils.norm
norm(vec) == FSqrt(SumSq(vec))
\* vec.copy() with component c (1-based) set to 0.
ZeroComponent(vec, c) == [vec EXCEPT ![c] = FZero]

-----------------------------------------------------------------------------
(* Inputs of WingboxGeometry.compute: a mesh and the airfoil data of the    *)
(* surface dictionary.                                                      *)

MaxNy == 3
ChordwiseCounts == {1, 2}

\* a point given by its coordinates in halves
Pt(x, y, z) == <<Num(x * (Scale \div 2)), Num(y * (Scale \div 2)), Num(z * (Scale \div 2))>>

\* station j (1-based) sits at y = j - 1, displaced by one of these: nothing,
\* sweep, dihedral, or back onto the span position of the station before it
LEShifts == {<<0, 0, 0>>, <<1, 0, 0>>, <<0, 0, 1>>, <<0, -1, 0>>}
\* trailing edge minus leading edge, in halves: (2,0,0), (1,0,0), (1,0,1),
\* (1,0,-1), (1,1,0), (0,0,1), (0,0,0) and (1,1/2,0)
ChordVecs == {<<4, 0, 0>>, <<2, 0, 0>>, <<2, 0, 2>>, <<2, 0, -2>>, <<2, 2, 0>>,
              <<0, 0, 2>>, <<0, 0, 0>>, <<2, 1, 0>>}
CoreShifts == {<<0, 0, 0>>, <<1, 0, 0>>}
CoreChordVecs == {<<4, 0, 0>>, <<2, 0, 0>>, <<2, 0, 2>>}

\* up to two stations take every shift and chord; longer meshes take the core ones
StationChoices(ny) ==
    IF ny <= 2 THEN [shift : LEShifts, chord : ChordVecs]
    ELSE [shift : CoreShifts, chord : CoreChordVecs]

LeadingEdge(st, j) == Pt(2 * st.shift[1], 2 * ((j - 1) + st.shift[2]), 2 * st.shift[3])
TrailingEdge(st, j) ==
    Pt(2 * st.shift[1] + st.chord[1], 2 * ((j - 1) + st.shift[2]) + st.chord[2],
       2 * st.shift[3] + st.chord[3])

MeshOf(nx, sts) ==
    LET le == [j \in 1..Len(sts) |-> LeadingEdge(sts[j], j)]
        te == [j \in 1..Len(sts) |-> TrailingEdge(sts[j], j)]
    IN  IF nx = 1 THEN <<le>> ELSE <<le, te>>

Meshes ==
    UNION {{MeshOf(nx, sts) : sts \in [1..ny -> StationChoices(ny)]} :
           nx \in ChordwiseCounts, ny \in 1..MaxNy}

Frac(n, d) == Num((n * Scale) \div d)

AirfoilData(xu, yu, xl, yl) ==
    [data_x_upper |-> xu, data_y_upper |-> yu, data_x_lower |-> xl, data_y_lower |-> yl]

\* a box from 25% to 75% chord, equally thick at both spars: w = 1/2
BoxSurface ==
    AirfoilData(<<Frac(1, 4), Frac(3, 4)>>, <<Frac(1, 16), Frac(1, 16)>>,
                <<Frac(1, 4), Frac(3, 4)>>, <<Frac(-1, 16), Frac(-1, 16)>>)
\* thicker at the front spar: w = 1/4
FrontSurface ==
    AirfoilData(<<Frac(0, 1), Frac(1, 1)>>, <<Frac(3, 16), Frac(1, 16)>>,
                <<Frac(0, 1), Frac(1, 1)>>, <<Frac(-3, 16), Frac(-1, 16)>>)
\* zero thickness at both ends
FlatSurface ==
    AirfoilData(<<Frac(1, 4), Frac(3, 4)>>, <<Frac(0, 1), Frac(0, 1)>>,
                <<Frac(1, 4), Frac(3, 4)>>, <<Frac(0, 1), Frac(0, 1)>>)
\* upper and lower sequences of different lengths
MismatchSurface ==
    AirfoilData(<<Frac(1, 4), Frac(3, 4)>>, <<Frac(1, 16), Frac(1, 16)>>,
                <<Frac(1, 4)>>, <<Frac(-1, 16)>>)
\* empty sequences
EmptySurface == AirfoilData(<<>>, <<>>, <<>>, <<>>)

Surfaces == {BoxSurface, FrontSurface, FlatSurface, MismatchSurface, EmptySurface}

-----------------------------------------------------------------------------
(* wingbox_geometry.py, WingboxGeometry *)

Unset == [k |-> "unset", v |-> 0]

First(seq) == seq[1]
Last(seq) == seq[Len(seq)]

\* mesh.shape[1]
NumY(m) == Len(m[1])

\* setup, lines 46-48: val=np.ones((ny - 1))
Ones(n) == [e \in 1..n |-> FOne]
\* line 61: np.zeros(streamwise_chords.shape)
Zeros(n) == [e \in 1..n |-> FZero]

\* lines 54 and 75: mesh[-1, :, :] - mesh[0, :, :]
ChordVectors(m) == [j \in 1..NumY(m) |-> VSub(Last(m)[j], First(m)[j])]

\* lines 55-56: the station chords and their midpoint averages
StreamwiseChords(m) ==
    LET chords == [j \in 1..NumY(m) |-> FSqrt(SumSq(ChordVectors(m)[j]))]
    IN  [e \in 1..(NumY(m) - 1) |-> FAdd(FMul(FHalf, chords[e]), FMul(FHalf, chords[e + 1]))]

\* lines 68-70 index element [0] and [-1] of three of the arrays
IndexFails(sf) ==
    Len(sf.data_x_upper) = 0 \/ Len(sf.data_y_upper) = 0 \/ Len(sf.data_y_lower) = 0

\* lines 68-70: the shear centre from the four corners
ShearCentre(sf) ==
    LET t0 == FSub(First(sf.data_y_upper), First(sf.data_y_lower))
        t1 == FSub(Last(sf.data_y_upper), Last(sf.data_y_lower))
    IN  FDiv(FAdd(FMul(First(sf.data_x_upper), t0), FMul(Last(sf.data_x_upper), t1)),
             FAdd(t0, t1))

\* line 73: nodes = (1-w) * mesh[0, :, :] + w * mesh[-1, :, :]
Nodes(m, ww) ==
    [j \in 1..NumY(m) |-> VAdd(VScale(FSub(FOne, ww), First(m)[j]), VScale(ww, Last(m)[j]))]

\* cos(a, b) = a.dot(b) / norm(a) / norm(b)
CosBetween(a, b) == FDiv(FDiv(Dot(a, b), norm(a)), norm(b))

\* mutant: the wrong component of the element vector is zeroed
SweepCosWrongAxis(nd, i) ==
    LET elem_vec == VSub(nd[i + 2], nd[i + 1])
    IN  CosBetween(elem_vec, ZeroComponent(elem_vec, 2))

\* mutant: the element vector is taken from the root node
SweepCosFromRoot(nd, i) ==
    LET elem_vec == VSub(nd[i + 2], nd[1])
    IN  CosBetween(elem_vec, ZeroComponent(elem_vec, 1))

\* lines 81-91: cos_theta_fe_sweep of element i (0-based)
SweepCos(nd, i) ==
    LET P0 == nd[i + 1]
        P1 == nd[i + 2]
        elem_vec == VSub(P1, P0)
        temp_vec == ZeroComponent(elem_vec, 1)
    IN  CosBetween(elem_vec, temp_vec)

\* mutant: the chordwise instead of the vertical component is zeroed
StationDotProdWrongAxis(mesh_vec) == CosBetween(mesh_vec, ZeroComponent(mesh_vec, 1))

\* lines 100-104 and 111-115: dot_prod of one station's chord vector
StationDotProd(mesh_vec) == CosBetween(mesh_vec, ZeroComponent(mesh_vec, 3))

\* mutant: the inverse cosine is taken whatever the ratio
StationTwistNoClamp(dot_prod) == [theta |-> ArcCos(dot_prod), arccos |-> TRUE]

\* mutant: the angle to the reversed chord
StationTwistSupplement(dot_prod) ==
    IF FGt(dot_prod, FOne)
    THEN [theta |-> FZero, arccos |-> FALSE]
    ELSE [theta |-> ArcCos(FNeg(dot_prod)), arccos |-> TRUE]

\* lines 106-109 and 117-120: theta of one station, and whether np.arccos was called
StationTwist(dot_prod) ==
    IF FGt(dot_prod, FOne)
    THEN [theta |-> FZero, arccos |-> FALSE]
    ELSE [theta |-> ArcCos(dot_prod), arccos |-> TRUE]

\* mutant: fem_chords is the array streamwise_chords itself
SharedWithFemChords(sc, fc) == fc

\* lines 62 and 92: streamwise_chords after a write to fem_chords[ielem];
\* fem_chords is streamwise_chords.copy(), so the write leaves it as it is
AfterFemChordWrite(sc, fc) == sc

\* mutant: the z components are zeroed in the rows of mesh_vectors themselves
RowsZeroedInPlace(arr, i) ==
    [arr EXCEPT ![i + 1] = ZeroComponent(@, 3), ![i + 2] = ZeroComponent(@, 3)]

\* lines 100-102 and 111-113: mesh_vectors after one pass of the second loop;
\* temp_mesh_vectors_0/1 are .copy()s of rows i and i + 1, so writing their
\* [2] leaves the rows as they are
RowsAfterCopies(arr, i) == arr

\* mutant: the average angle without the chord ratio
FemTwistUnscaled(theta_0, theta_1, sc, fc) == FDiv(FAdd(theta_0, theta_1), Num(2 * Scale))

\* line 122: (theta_0 + theta_1) / 2 * streamwise_chords[ielem] / fem_chords[ielem]
FemTwist(theta_0, theta_1, sc, fc) ==
    FDiv(FMul(FDiv(FAdd(theta_0, theta_1), Num(2 * Scale)), sc), fc)

GeomInit ==
    /\ mesh \in Meshes
    /\ surface \in Surfaces
    /\ pc_g = "chords"
    /\ ielem = 0
    /\ streamwise_chords = <<>>
    /\ fem_chords = <<>>
    /\ fem_twists = <<>>
    /\ w = Unset
    /\ nodes = <<>>
    /\ mesh_vectors = <<>>
    /\ loc = [dot_prod_0 |-> Unset, theta_0 |-> Unset, arccos_0 |-> FALSE,
              dot_prod_1 |-> Unset, theta_1 |-> Unset, arccos_1 |-> FALSE]
    /\ outputs = [streamwise_chords |-> Ones(NumY(mesh) - 1),
                  fem_chords |-> Ones(NumY(mesh) - 1),
                  fem_twists |-> Ones(NumY(mesh) - 1)]
    /\ raised = "none"
    /\ written = {}
    /\ TrimIdle

\* lines 53-62
Chords ==
    /\ pc_g = "chords"
    /\ streamwise_chords' = StreamwiseChords(mesh)
    /\ outputs' = [outputs EXCEPT !.streamwise_chords = streamwise_chords']
    /\ written' = written \cup {"streamwise_chords"}
    /\ fem_twists' = Zeros(Len(streamwise_chords'))
    /\ fem_chords' = streamwise_chords'
    /\ pc_g' = "shear_centre"
    /\ UNCHANGED <<mesh, surface, ielem, w, nodes, mesh_vectors, loc, raised>>
    /\ UNCHANGED tvars

\* lines 64-75; indexing an empty array raises IndexError, which leaves compute
ShearCentreNodes ==
    /\ pc_g = "shear_centre"
    /\ IF IndexFails(surface)
       THEN /\ raised' = "IndexError"
            /\ pc_g' = "raised"
            /\ UNCHANGED <<w, nodes, mesh_vectors>>
       ELSE /\ w' = ShearCentre(surface)
            /\ nodes' = Nodes(mesh, w')
            /\ mesh_vectors' = ChordVectors(mesh)
            /\ pc_g' = "fem_chord_loop"
            /\ UNCHANGED raised
    /\ ielem' = 0
    /\ UNCHANGED <<mesh, surface, streamwise_chords, fem_chords, fem_twists, loc, outputs,
                   written>>
    /\ UNCHANGED tvars

\* lines 78-92: one pass of the first loop
FemChordStep ==
    /\ pc_g = "fem_chord_loop"
    /\ ielem < NumY(mesh) - 1
    /\ fem_chords' = [fem_chords EXCEPT ![ielem + 1] = FMul(@, SweepCos(nodes, ielem))]
    /\ streamwise_chords' = AfterFemChordWrite(streamwise_chords, fem_chords')
    /\ ielem' = ielem + 1
    /\ UNCHANGED <<mesh, surface, pc_g, fem_twists, w, nodes,
                   mesh_vectors, loc, outputs, raised, written>>
    /\ UNCHANGED tvars

\* line 94, once the first loop is exhausted
WriteFemChords ==
    /\ pc_g = "fem_chord_loop"
    /\ ielem >= NumY(mesh) - 1
    /\ outputs' = [outputs EXCEPT !.fem_chords = fem_chords]
    /\ written' = written \cup {"fem_chords"}
    /\ pc_g' = "twist_loop"
    /\ ielem' = 0
    /\ UNCHANGED <<mesh, surface, streamwise_chords, fem_chords, fem_twists, w, nodes,
                   mesh_vectors, loc, raised>>
    /\ UNCHANGED tvars

\* lines 97-122: one pass of the second loop
TwistStep ==
    /\ pc_g = "twist_loop"
    /\ ielem < NumY(mesh) - 1
    /\ LET dot_prod_0 == StationDotProd(mesh_vectors[ielem + 1])
           s0 == StationTwist(dot_prod_0)
           dot_prod_1 == StationDotProd(mesh_vectors[ielem + 2])
           s1 == StationTwist(dot_prod_1)
       IN  /\ loc' = [dot_prod_0 |-> dot_prod_0, theta_0 |-> s0.theta, arccos_0 |-> s0.arccos,
                      dot_prod_1 |-> dot_prod_1, theta_1 |-> s1.theta, arccos_1 |-> s1.arccos]
           /\ fem_twists' = [fem_twists EXCEPT ![ielem + 1] =
                                FemTwist(s0.theta, s1.theta, streamwise_chords[ielem + 1],
                                         fem_chords[ielem + 1])]
    /\ mesh_vectors' = RowsAfterCopies(mesh_vectors, ielem)
    /\ ielem' = ielem + 1
    /\ UNCHANGED <<mesh, surface, pc_g, streamwise_chords, fem_chords, w, nodes,
                   outputs, raised, written>>
    /\ UNCHANGED tvars

\* line 124, once the second loop is exhausted
WriteFemTwists ==
    /\ pc_g = "twist_loop"
    /\ ielem >= NumY(mesh) - 1
    /\ outputs' = [outputs EXCEPT !.fem_twists = fem_twists]
    /\ written' = written \cup {"fem_twists"}
    /\ pc_g' = "done"
    /\ UNCHANGED <<mesh, surface, ielem, streamwise_chords, fem_chords, fem_twists, w, nodes,
                   mesh_vectors, loc, raised>>
    /\ UNCHANGED tvars

GeomNext ==
    Chords \/ ShearCentreNodes \/ FemChordStep \/ WriteFemChords \/ TwistStep \/ WriteFemTwists

GeomSpec == GeomInit /\ [][GeomNext]_vars

-----------------------------------------------------------------------------
(* Claims about the trim loop *)

InLoopBody == pc_t \in {"compute_totals", "solve", "update"}

\* C1: whenever the error computed in an iteration has norm <= tol, the loop
\* stops in that iteration: no Jacobian, no solve and no update follow it,
\* and the controls the script ends with are those the error was evaluated at.
C1_ConvergedStopsAtEvaluated ==
    /\ InLoopBody => NormGtTol(error)
    /\ pc_t = "done" => <<alpha, twist_cp>> = evalCtrl

\* C2: the trim solve always terminates, whatever the analysis function.
C2_Terminates == <>(outcome # "running")

\* C3: a singular Jacobian ends the solve in a reported SingularJacobian
\* status, not in an uncaught failure.
C3_SingularReported ==
    (pc_t = "raised" /\ outcome # "AnalysisError" /\ Det(Jac) = R0)
    => outcome = "SingularJacobian"

InitialError == ErrorOf(scn.target, Evaluate(scn.fn, scn.guess[1], scn.guess[2]))

\* C4: for a linear analysis with invertible A and an initial error above the
\* tolerance, the script ends at the exact solution with iteration count 1.
C4_LinearOneIteration ==
    (/\ scn.fn.kind = "linear"
     /\ Det(scn.fn.A) # R0
     /\ NormGtTol(InitialError)
     /\ pc_t = "done")
    => /\ Evaluate(scn.fn, alpha, twist_cp) = scn.target
       /\ iter = 1

EndToEnd == [fn |-> StubFn, guess |-> <<alpha0, twist0>>,
             target |-> <<CL_target, CM_target>>]

C6_EvaluationsPerIteration ==
    (pc_t = "while" /\ iter > 0)
    => /\ itRuns = 1
       /\ itTotals = IF NormGtTol(error) THEN 1 ELSE 0

\* a solve of the current iteration has produced delta
Solved == pc_t = "update" \/ (pc_t = "while" /\ iter > 0)

\* C15: in every iteration error = [CL_target - CL, CM_target - CM], column 0
\* of the Jacobian holds the derivatives with respect to alpha and column 1
\* those with respect to twist_cp (at the controls the error was evaluated
\* at), Jac * delta = error, and the update adds delta[0] to alpha and
\* delta[1] to twist_cp.
C15_ConsistentOrdering ==
    Solved
    => LET c == Evaluate(scn.fn, evalCtrl[1], evalCtrl[2])
           fsens == ComputeTotals(scn.fn, evalCtrl[1], evalCtrl[2])
       IN  /\ error[1] = RSub(scn.target[1], c[1])
           /\ error[2] = RSub(scn.target[2], c[2])
           /\ Jac[1][1] = fsens.CL_alpha /\ Jac[1][2] = fsens.CL_twist
           /\ Jac[2][1] = fsens.CM_alpha /\ Jac[2][2] = fsens.CM_twist
           /\ RAdd(RMul(Jac[1][1], delta[1]), RMul(Jac[1][2], delta[2])) = error[1]
           /\ RAdd(RMul(Jac[2][1], delta[1]), RMul(Jac[2][2], delta[2])) = error[2]
           /\ pc_t = "update" => <<alpha, twist_cp>> = evalCtrl
           /\ pc_t = "while"
                 => /\ alpha = RAdd(evalCtrl[1], delta[1])
                    /\ twist_cp = RAdd(evalCtrl[2], delta[2])

C15_Witness ==
    /\ pc_t = "while" /\ iter = 1
    /\ delta[1] # R0 /\ delta[2] # R0 /\ delta[1] # delta[2]
    /\ Jac[1][2] # Jac[2][1]
    /\ alpha = RAdd(evalCtrl[1], delta[1])

\* C17: a failed run_model, compute_totals or linear solve ends the solve at
\* its first occurrence (the failing call is not repeated and nothing runs
\* after it), and the failure is surfaced with the last control-variable
\* vector, the last error vector and the iteration index.
C17_FailureSurfacedWithContext ==
    pc_t = "raised"
    => /\ itRuns <= 1 /\ itTotals <= 1
       /\ ~ENABLED TrimNext
       /\ DOMAIN context = {"controls", "error", "iteration"}
       /\ context.controls = <<alpha, twist_cp>>
       /\ context.error = error
       /\ context.iteration = iter

\* C18: the loop runs at least one full iteration (one evaluation, one
\* Jacobian, one update) for every initial guess, even one that meets the
\* targets exactly: the seeded error has a norm above the tolerance, so the
\* first test of the loop passes, and the loop is never left with iter = 0.
C18_AtLeastOneIteration ==
    /\ (pc_t = "while" /\ iter = 0) => (error = ErrorSeed /\ NormGtTol(error))
    /\ pc_t \in {"final", "done"} => (iter >= 1 /\ runs >= 1 /\ Jac # JacZero)
    /\ pc_t = "raised" => runs >= 1

\* the initial guess meets the targets exactly, and one iteration was run
C18_Witness ==
    /\ pc_t = "done"
    /\ InitialError = <<R0, R0>>
    /\ iter = 1
    /\ <<alpha, twist_cp>> = scn.guess

\* C19: when the loop has exited after n iterations the analysis has been
\* evaluated n + 1 times; the reported coefficients are those of the final
\* evaluation, at the controls left by the last update; the exit test was
\* made on the error measured before that update.
C19_FinalEvaluation ==
    pc_t = "done"
    => /\ runs = iter + 1
       /\ coeffs = Evaluate(scn.fn, alpha, twist_cp)
       /\ alpha = RAdd(evalCtrl[1], delta[1])
       /\ twist_cp = RAdd(evalCtrl[2], delta[2])
       /\ error = ErrorOf(scn.target, Evaluate(scn.fn, evalCtrl[1], evalCtrl[2]))
       /\ ~NormGtTol(error)

\* the last update moved the controls, so the error of the exit test is not
\* the error at the reported controls
C19_Witness ==
    /\ pc_t = "done"
    /\ iter >= 2
    /\ <<alpha, twist_cp>> # evalCtrl
    /\ error # ErrorOf(scn.target, coeffs)

-----------------------------------------------------------------------------
(* Claims about WingboxGeometry.compute *)

TwistPassed == pc_g \in {"twist_loop", "done"} /\ loc.dot_prod_0.k # "unset"

\* C7: for each of the two stations of an element, a normalized dot product
\* greater than 1 gives the station twist angle exactly 0, and the inverse
\* cosine is not evaluated on it (so no NaN comes from a ratio above 1).
C7_ClampAboveOne ==
    TwistPassed
    => /\ FGt(loc.dot_prod_0, FOne) => (loc.theta_0 = FZero /\ ~loc.arccos_0)
       /\ FGt(loc.dot_prod_1, FOne) => (loc.theta_1 = FZero /\ ~loc.arccos_1)

C7_Witness ==
    /\ TwistPassed
    /\ FGt(loc.dot_prod_0, FOne)
    /\ loc.theta_0 = FZero
    /\ ~FGt(loc.dot_prod_1, FOne)
    /\ loc.arccos_1

AllFinite(seq) == \A e \in 1..Len(seq) : IsFinite(seq[e])

\* C8: the extraction never emits NaN or Inf silently: when compute returns,
\* every output value is finite, or a GeometryDegenerateError was reported.
C8_FiniteOrReported ==
    pc_g = "done"
    => \/ /\ AllFinite(outputs.streamwise_chords)
          /\ AllFinite(outputs.fem_chords)
          /\ AllFinite(outputs.fem_twists)
       \/ raised = "GeometryDegenerateError"

\* fewer than 2 chordwise or spanwise stations, or upper and lower airfoil
\* sequences that are empty or of different lengths
Malformed ==
    \/ Len(mesh) < 2
    \/ NumY(mesh) < 2
    \/ Len(surface.data_x_upper) = 0
    \/ Len(surface.data_x_lower) = 0
    \/ Len(surface.data_x_upper) # Len(surface.data_x_lower)
    \/ Len(surface.data_y_upper) # Len(surface.data_y_lower)

\* C9: a malformed input is rejected before anything is computed: no output
\* is written, and compute ends with a MalformedMeshError.
C9_ValidatedFirst ==
    Malformed
    => /\ written = {}
       /\ pc_g \in {"done", "raised"} => raised = "MalformedMeshError"

\* every chordwise row keeps its x (no sweep) / its z (no dihedral) along the span
ZeroSweep == \A i \in 1..Len(mesh) : \A j \in 1..NumY(mesh) : mesh[i][j][1] = mesh[i][1][1]
ZeroDihedral == \A i \in 1..Len(mesh) : \A j \in 1..NumY(mesh) : mesh[i][j][3] = mesh[i][1][3]
\* the Mesh invariant: spanwise stations in strictly increasing span order
SpanMonotonic ==
    \A i \in 1..Len(mesh) : \A j \in 1..(NumY(mesh) - 1) : FGt(mesh[i][j + 1][2], mesh[i][j][2])
\* the airfoil has thickness where the shear centre is taken from it
HasThickness ==
    /\ ~IndexFails(surface)
    /\ FGt(FAdd(FSub(First(surface.data_y_upper), First(surface.data_y_lower)),
                FSub(Last(surface.data_y_upper), Last(surface.data_y_lower))), FZero)

FlatChords == \A j \in 1..NumY(mesh) : ChordVectors(mesh)[j][3] = FZero

\* element e (1-based) has two chords of non-zero length and a finite,
\* non-zero fem_chord
RegularElement(e) ==
    /\ FGt(SumSq(ChordVectors(mesh)[e]), FZero)
    /\ FGt(SumSq(ChordVectors(mesh)[e + 1]), FZero)
    /\ IsFinite(outputs.fem_chords[e])
    /\ outputs.fem_chords[e] # FZero

\* the inverse cosine of the largest number below 1: the angle one rounding
\* step of the ratio at line 104 amounts to
RoundingAngle == ArcCos(Num(Scale - 1))

ElemVec(e) == VSub(nodes[e + 1], nodes[e])

\* the element vector is finite and, with its x dropped, at least as long as
\* the unit of length (from there on the fixed-point format resolves it with
\* a relative rounding step of 1/Scale, as float64 does at every length)
NonDegenerateElement(e) ==
    /\ \A c \in 1..3 : IsFinite(ElemVec(e)[c])
    /\ ~FGt(FOne, SumSq(ZeroComponent(ElemVec(e), 1)))

StepAbove(a) == FMul(a, Num(Scale + 1))
StepBelow(a) == FMul(a, Num(Scale - 1))

StationPair(m, e) == [i \in 1..Len(m) |-> <<m[i][e], m[i][e + 1]>>]

\* the three values of the only element of a two-station mesh
ElementValues(m2, sf) ==
    LET sc == StreamwiseChords(m2)[1]
        fc == FMul(sc, SweepCos(Nodes(m2, ShearCentre(sf)), 0))
        t0 == StationTwist(StationDotProd(ChordVectors(m2)[1])).theta
        t1 == StationTwist(StationDotProd(ChordVectors(m2)[2])).theta
    IN  [streamwise_chord |-> sc, fem_chord |-> fc, fem_twist |-> FemTwist(t0, t1, sc, fc)]

\* C13: a mesh with ny stations gives exactly ny - 1 values of each output,
\* and the values at index e are those of the mesh made of stations e and
\* e + 1 alone: no other station influences them.
C13_OnePerElementLocal ==
    /\ Len(outputs.streamwise_chords) = NumY(mesh) - 1
    /\ Len(outputs.fem_chords) = NumY(mesh) - 1
    /\ Len(outputs.fem_twists) = NumY(mesh) - 1
    /\ pc_g = "done"
       => \A e \in 1..(NumY(mesh) - 1) :
             LET ev == ElementValues(StationPair(mesh, e), surface)
             IN  /\ outputs.streamwise_chords[e] = ev.streamwise_chord
                 /\ outputs.fem_chords[e] = ev.fem_chord
                 /\ outputs.fem_twists[e] = ev.fem_twist

C13_Witness ==
    /\ pc_g = "done"
    /\ NumY(mesh) = MaxNy
    /\ AllFinite(outputs.fem_twists)
    /\ \A e \in 1..(NumY(mesh) - 2) :
          /\ outputs.streamwise_chords[e] # outputs.streamwise_chords[e + 1]
          /\ outputs.fem_chords[e] # outputs.fem_chords[e + 1]
          /\ outputs.fem_twists[e] # outputs.fem_twists[e + 1]

\* C14: compute never mutates its input mesh or the surface's airfoil data,
\* and the vectors whose component is zeroed are copies: no step changes
\* mesh, surface, or (once they are computed) nodes and mesh_vectors.
C14_InputsNotMutated ==
    [][/\ mesh' = mesh
       /\ surface' = surface
       /\ pc_g \in {"fem_chord_loop", "twist_loop"}
             => (nodes' = nodes /\ mesh_vectors' = mesh_vectors)]_vars

\* compute has returned for a mesh whose chord vectors have a z to zero
C14_Witness ==
    /\ pc_g = "done"
    /\ NumY(mesh) = MaxNy
    /\ mesh_vectors = ChordVectors(mesh)
    /\ nodes = Nodes(mesh, w)
    /\ \E j \in 1..NumY(mesh) : mesh_vectors[j][3] # FZero
    /\ \E j \in 1..(NumY(mesh) - 1) : nodes[j + 1][1] # nodes[j][1]

\* the second loop has just computed element ielem (1-based)
TwistComputed == pc_g = "twist_loop" /\ ielem >= 1

\* |a - b| <= n rounding steps, or both a and b are NaN or Inf
WithinSteps(a, b, n) ==
    IF IsFinite(a) /\ IsFinite(b) THEN Abs(a.v - b.v) <= n ELSE ~IsFinite(a) /\ ~IsFinite(b)

\* C16: fem_twist is the average of the two station angles times
\* streamwise_chord / fem_chord, where fem_chord is the sweep-corrected value
\* of that element: the first loop has finished and written fem_chords before
\* any fem_twist is computed.  So fem_twist is the average angle divided by
\* the element's sweep cosine (to one rounding step).
C16_TwistUsesCorrectedChord ==
    /\ pc_g = "twist_loop"
          => /\ "fem_chords" \in written
             /\ fem_chords = outputs.fem_chords
             /\ \A e \in 1..(NumY(mesh) - 1) :
                   fem_chords[e] = FMul(streamwise_chords[e], SweepCos(nodes, e - 1))
    /\ TwistComputed
          => LET average == FDiv(FAdd(loc.theta_0, loc.theta_1), Num(2 * Scale))
             IN  fem_twists[ielem] =
                     FDiv(FMul(average, outputs.streamwise_chords[ielem]),
                          outputs.fem_chords[ielem])
    /\ (TwistComputed /\ NonDegenerateElement(ielem))
          => LET average == FDiv(FAdd(loc.theta_0, loc.theta_1), Num(2 * Scale))
             IN  WithinSteps(fem_twists[ielem],
                             FDiv(average, SweepCos(nodes, ielem - 1)), 1)

\* a swept element with twisted stations: the chord ratio enlarges the average
C16_Witness ==
    /\ TwistComputed
    /\ NonDegenerateElement(ielem)
    /\ FGt(loc.theta_0, FZero) /\ FGt(loc.theta_1, loc.theta_0)
    /\ FGt(outputs.streamwise_chords[ielem], outputs.fem_chords[ielem])
    /\ FGt(fem_twists[ielem], FDiv(FAdd(loc.theta_0, loc.theta_1), Num(2 * Scale)))

\* the mirror image of m in the plane z = 0
MirrorZ(m) == [i \in 1..Len(m) |-> [j \in 1..NumY(m) |-> [m[i][j] EXCEPT ![3] = FNeg(@)]]]

\* the chord vector has a non-zero length in the plane z = 0
HasPlanformChord(vec) == FGt(SumSq(ZeroComponent(vec, 3)), FZero)

InQuarterTurn(theta) == IsFinite(theta) /\ 0 <= theta.v /\ theta.v <= HalfPi

\* C20: every station twist angle lies in [0, pi/2] (it is NaN only for a
\* chord with no extent in the plane z = 0), every finite fem_twist is >= 0,
\* and the mirror image of the mesh, with all chord-vector z components
\* negated, gives the same fem_twists: the sign of the twist is not carried.
C20_TwistSignLost ==
    /\ TwistComputed
          => /\ IF HasPlanformChord(mesh_vectors[ielem])
                THEN InQuarterTurn(loc.theta_0) ELSE IsNaN(loc.theta_0)
             /\ IF HasPlanformChord(mesh_vectors[ielem + 1])
                THEN InQuarterTurn(loc.theta_1) ELSE IsNaN(loc.theta_1)
    /\ pc_g = "done"
          => \A e \in 1..(NumY(mesh) - 1) :
                /\ IsFinite(outputs.fem_twists[e]) => outputs.fem_twists[e].v >= 0
                /\ outputs.fem_twists[e]
                      = ElementValues(StationPair(MirrorZ(mesh), e), surface).fem_twist

\* a nose-down station next to an untwisted one, with a positive fem_twist
C20_Witness ==
    /\ pc_g = "done"
    /\ \E e \in 1..(NumY(mesh) - 1) :
          /\ FGt(FZero, mesh_vectors[e][3])
          /\ mesh_vectors[e + 1][3] = FZero
          /\ HasPlanformChord(mesh_vectors[e]) /\ HasPlanformChord(mesh_vectors[e + 1])
          /\ FGt(outputs.fem_twists[e], FZero)
          /\ NonDegenerateElement(e)

\* C21: the streamwise_chords output is the plain midpoint average
\* 0.5 * (|chord_e| + |chord_e+1|) for every element, and the later in-place
\* multiplication of fem_chords by the sweep cosine changes neither it nor
\* the local array it was copied from.
C21_StreamwiseChordsKept ==
    "streamwise_chords" \in written
    => /\ \A e \in 1..(NumY(mesh) - 1) :
             outputs.streamwise_chords[e]
                = FAdd(FMul(FHalf, FSqrt(SumSq(VSub(Last(mesh)[e], First(mesh)[e])))),
                       FMul(FHalf, FSqrt(SumSq(VSub(Last(mesh)[e + 1], First(mesh)[e + 1])))))
       /\ streamwise_chords = outputs.streamwise_chords

\* a swept mesh: every fem_chord was scaled below its streamwise chord
C21_Witness ==
    /\ pc_g = "done"
    /\ NumY(mesh) = MaxNy
    /\ \A e \in 1..(NumY(mesh) - 1) :
          /\ FGt(outputs.fem_chords[e], FZero)
          /\ FGt(outputs.streamwise_chords[e], outputs.fem_chords[e])
    /\ outputs.streamwise_chords[1] # outputs.streamwise_chords[2]

====
